---- MODULE Spec2Model ----
(***************************************************************************)
(* Model of substrate/client/network/sync/src/service/network.rs:          *)
(* NetworkServiceProvider (the relay task), NetworkServiceHandle (the      *)
(* producer side) and ToServiceCommand (the command vocabulary), together  *)
(* with the environment they talk to: the injected Network capability and  *)
(* the callers holding the receiving ends of the one-shot reply slots.     *)
(***************************************************************************)
EXTENDS Integers, Sequences, FiniteSets, TLC

(* ---------------------------- bounds ----------------------------------- *)
\* number of handle operations issued in one behaviour
MaxCmds == 2
\* number of NetworkServiceHandle values ever created (handle() and clone())
MaxHandles == 2
\* stands for the 100_000 passed to tracing_unbounded, scaled to the bound
QueueSizeWarning == 1

(* ---------------------------- input domains ---------------------------- *)
Peers == {"P", "Q"}
Protocols == {"sync/1"}
Changes == {-100}
Payloads == {"req"}
Policies == {"TryConnect"}
\* Ok((Vec<u8>, ProtocolName)) values and RequestFailure values
Successes == {"Ok99"}
Failures == {"Refused"}
Replies == Successes \cup Failures
\* the outcome of awaiting a oneshot::Receiver whose Sender was dropped
Canceled == "Canceled"

NoTx == 0
NoArg == "-"
NoCmd == [id |-> 0, kind |-> "None", who |-> NoArg, arg |-> NoArg,
          request |-> NoArg, tx |-> NoTx, connect |-> NoArg]

VARIABLES
    pc,        \* position of the provider / its run task
    handle,    \* NetworkServiceProvider.handle is still held
    created,   \* number of NetworkServiceHandle values handed out so far
    live,      \* the handed-out handles not yet dropped
    queue,     \* the commands in the channel, oldest first
    warned,    \* the channel's queue-size warning has fired
    issued,    \* history: every handle operation called, in call order
    oneshot,   \* per issued operation: state of its reply slot
    cur,       \* run: the command bound to `inner`
    taken,     \* history: ids of the commands run has dequeued
    calls,     \* history: the capability calls, in call order
    inflight,  \* ids of the capability calls that have not returned yet
    held,      \* the reply slots the capability holds, with their request
    answered,  \* history: per request, what the capability wrote
    observed,  \* history: per request, what was seen on its Receiver, by whom
    started    \* history: whether a handle was live when run started

vars == <<pc, handle, created, live, queue, warned, issued, oneshot, cur,
          taken, calls, inflight, held, answered, observed, started>>

(* ---------------------------- ToServiceCommand ------------------------- *)
DisconnectPeer(id, who, protocol) ==
    [id |-> id, kind |-> "DisconnectPeer", who |-> who, arg |-> protocol,
     request |-> NoArg, tx |-> NoTx, connect |-> NoArg]

ReportPeer(id, who, change) ==
    [id |-> id, kind |-> "ReportPeer", who |-> who, arg |-> change,
     request |-> NoArg, tx |-> NoTx, connect |-> NoArg]

StartRequest(id, who, protocol, request, tx, connect) ==
    [id |-> id, kind |-> "StartRequest", who |-> who, arg |-> protocol,
     request |-> request, tx |-> tx, connect |-> connect]

\* a reply slot: where its Sender is, what was written, where its Receiver is
NoSlot == [tx |-> "none", value |-> NoArg, rx |-> "none"]

(* ---------------------------- the channel ------------------------------ *)
\* the TracingUnboundedReceiver exists: before run, and inside the loop
rx_open == pc \in {"new", "next", "match", "call"}

\* number of TracingUnboundedSender values alive
senders == Cardinality(live) + (IF handle THEN 1 ELSE 0)

\* variant: the send is refused once the depth has reached the threshold
bounded_send(q, open, msg) ==
    IF open /\ Len(q) < QueueSizeWarning THEN Append(q, msg) ELSE q

\* TracingUnboundedSender::unbounded_send: the queue after the send
unbounded_send(q, open, msg) == IF open THEN Append(q, msg) ELSE q

\* ... and its Result
send_result(open) == IF open THEN "Ok" ELSE "Err"

\* ... and the warning it logs once the depth reaches the threshold
queue_warning(q, w) == w \/ Len(q) >= QueueSizeWarning

\* variant: the Sender is kept alive somewhere, its drop closes nothing
drop_tx_leak(slot) == slot

\* a oneshot::Sender is dropped without a send: the slot is closed
drop_tx(slot) == [slot EXCEPT !.tx = "dropped"]

\* variant: the queued commands outlive the receiver
drain_keep(q, os) == os

\* dropping the receiver drops the queued commands, reply Senders included
drain(q, os) ==
    [i \in DOMAIN os |->
        IF \E k \in DOMAIN q : q[k].kind = "StartRequest" /\ q[k].tx = i
        THEN drop_tx(os[i]) ELSE os[i]]

\* variant: the Result of the send is unwrapped
expect_ok(result) == IF result = "Ok" THEN "returned" ELSE "panicked"

\* `let _ = ...`: the Result of the send is discarded, the call returns
discard(result) == "returned"

(* ---------------------------- initial state ---------------------------- *)
Ids == 1..MaxCmds

\* run has not been entered
NotStarted == "no"

\* NetworkServiceProvider::new: an empty channel, the provider holds both ends
Init ==
    /\ pc = "new"
    /\ handle = TRUE
    /\ created = 0
    /\ live = {}
    /\ queue = <<>>
    /\ warned = FALSE
    /\ issued = <<>>
    /\ oneshot = [i \in Ids |-> NoSlot]
    /\ cur = NoCmd
    /\ taken = {}
    /\ calls = <<>>
    /\ inflight = {}
    /\ held = {}
    /\ answered = [i \in Ids |-> NoArg]
    /\ observed = [i \in Ids |-> <<>>]
    /\ started = NotStarted

(* ---------------------------- NetworkServiceHandle --------------------- *)
\* the command is handed to the channel and the Result of the send discarded
enqueue(h, msg) ==
    /\ queue' = unbounded_send(queue, rx_open, msg)
    /\ warned' = IF rx_open THEN queue_warning(queue', warned) ELSE warned
    /\ issued' = Append(issued, [cmd |-> msg, by |-> h, open |-> rx_open,
                                 result |-> discard(send_result(rx_open))])

\* variant: a rejected request is answered with a network failure
sent_slot_refuse(open) ==
    IF open THEN [tx |-> "queue", value |-> NoArg, rx |-> "held"]
    ELSE [tx |-> "sent", value |-> "Refused", rx |-> "held"]

\* the reply Sender travels inside the command; a rejected command is dropped
sent_slot(open) ==
    IF open THEN [tx |-> "queue", value |-> NoArg, rx |-> "held"]
    ELSE drop_tx([tx |-> "queue", value |-> NoArg, rx |-> "held"])

report_peer(h, who, cost_benefit) ==
    /\ h \in live
    /\ Len(issued) < MaxCmds
    /\ enqueue(h, ReportPeer(Len(issued) + 1, who, cost_benefit))
    /\ UNCHANGED <<pc, handle, created, live, oneshot, cur, taken, calls,
                   inflight, held, answered, observed, started>>

disconnect_peer(h, who, protocol) ==
    /\ h \in live
    /\ Len(issued) < MaxCmds
    /\ enqueue(h, DisconnectPeer(Len(issued) + 1, who, protocol))
    /\ UNCHANGED <<pc, handle, created, live, oneshot, cur, taken, calls,
                   inflight, held, answered, observed, started>>

start_request(h, who, protocol, request, connect) ==
    /\ h \in live
    /\ Len(issued) < MaxCmds
    /\ LET id == Len(issued) + 1 IN
        /\ enqueue(h, StartRequest(id, who, protocol, request, id, connect))
        /\ oneshot' = [oneshot EXCEPT ![id] = sent_slot(rx_open)]
    /\ UNCHANGED <<pc, handle, created, live, cur, taken, calls, inflight,
                   held, answered, observed, started>>

\* #[derive(Clone)] and the drop of a handle
clone(h) ==
    /\ h \in live
    /\ created < MaxHandles
    /\ created' = created + 1
    /\ live' = live \cup {created + 1}
    /\ UNCHANGED <<pc, handle, queue, warned, issued, oneshot, cur, taken,
                   calls, inflight, held, answered, observed, started>>

drop_handle(h) ==
    /\ h \in live
    /\ live' = live \ {h}
    /\ UNCHANGED <<pc, handle, created, queue, warned, issued, oneshot, cur,
                   taken, calls, inflight, held, answered, observed, started>>

(* ---------------------------- NetworkServiceProvider ------------------- *)
\* NetworkServiceProvider::handle, callable while the provider is not consumed
provider_handle ==
    /\ pc = "new"
    /\ created < MaxHandles
    /\ created' = created + 1
    /\ live' = live \cup {created + 1}
    /\ UNCHANGED <<pc, handle, queue, warned, issued, oneshot, cur, taken,
                   calls, inflight, held, answered, observed, started>>

\* the provider is dropped without being run: rx and handle go with it
provider_drop ==
    /\ pc = "new"
    /\ pc' = "dropped"
    /\ handle' = FALSE
    /\ oneshot' = drain(queue, oneshot)
    /\ queue' = <<>>
    /\ UNCHANGED <<created, live, warned, issued, cur, taken, calls,
                   inflight, held, answered, observed, started>>

\* variant: run starts on a channel of its own, what was queued is dropped
run_start_fresh_queue ==
    /\ pc = "new"
    /\ pc' = "next"
    /\ started' = IF live = {} THEN "alone" ELSE "shared"
    /\ handle' = FALSE
    /\ oneshot' = drain(queue, oneshot)
    /\ queue' = <<>>
    /\ UNCHANGED <<created, live, warned, issued, cur, taken, calls,
                   inflight, held, answered, observed>>

\* variant: the provider's own handle is kept while the loop runs
run_start_keep_handle ==
    /\ pc = "new"
    /\ pc' = "next"
    /\ started' = IF live = {} THEN "alone" ELSE "shared"
    /\ UNCHANGED <<handle, created, live, queue, warned, issued, oneshot,
                   cur, taken, calls, inflight, held, answered, observed>>

\* run, up to the first rx.next().await: destructure self, drop(handle)
run_start ==
    /\ pc = "new"
    /\ pc' = "next"
    /\ started' = IF live = {} THEN "alone" ELSE "shared"
    /\ handle' = FALSE
    /\ UNCHANGED <<created, live, queue, warned, issued, oneshot, cur, taken,
                   calls, inflight, held, answered, observed>>

\* variant: the next command is taken while the call is still in progress
run_next_eager ==
    /\ pc \in {"next", "call"}
    /\ queue # <<>>
    /\ cur' = Head(queue)
    /\ queue' = Tail(queue)
    /\ taken' = taken \cup {Head(queue).id}
    /\ pc' = "match"
    /\ UNCHANGED <<handle, created, live, warned, issued, oneshot, calls,
                   inflight, held, answered, observed, started>>

\* variant: the newest command is taken first
run_next_lifo ==
    /\ pc = "next"
    /\ queue # <<>>
    /\ cur' = queue[Len(queue)]
    /\ queue' = SubSeq(queue, 1, Len(queue) - 1)
    /\ taken' = taken \cup {queue[Len(queue)].id}
    /\ pc' = "match"
    /\ UNCHANGED <<handle, created, live, warned, issued, oneshot, calls,
                   inflight, held, answered, observed, started>>

\* rx.next().await yields Some(inner)
run_next ==
    /\ pc = "next"
    /\ queue # <<>>
    /\ cur' = Head(queue)
    /\ queue' = Tail(queue)
    /\ taken' = taken \cup {Head(queue).id}
    /\ pc' = "match"
    /\ UNCHANGED <<handle, created, live, warned, issued, oneshot, calls,
                   inflight, held, answered, observed, started>>

\* variant: start_request is handed a Sender of the relay's own making
service_call_fresh_tx(inner) ==
    IF inner.kind = "DisconnectPeer" THEN
        [id |-> inner.id, op |-> "disconnect_peer", who |-> inner.who,
         arg |-> inner.arg, request |-> NoArg, fallback |-> NoArg,
         tx |-> NoTx, connect |-> NoArg]
    ELSE IF inner.kind = "ReportPeer" THEN
        [id |-> inner.id, op |-> "report_peer", who |-> inner.who,
         arg |-> inner.arg, request |-> NoArg, fallback |-> NoArg,
         tx |-> NoTx, connect |-> NoArg]
    ELSE
        [id |-> inner.id, op |-> "start_request", who |-> inner.who,
         arg |-> inner.arg, request |-> inner.request, fallback |-> "None",
         tx |-> NoTx, connect |-> inner.connect]

\* the arms of `match inner`: the call each command is turned into
service_call(inner) ==
    IF inner.kind = "DisconnectPeer" THEN
        [id |-> inner.id, op |-> "disconnect_peer", who |-> inner.who,
         arg |-> inner.arg, request |-> NoArg, fallback |-> NoArg,
         tx |-> NoTx, connect |-> NoArg]
    ELSE IF inner.kind = "ReportPeer" THEN
        [id |-> inner.id, op |-> "report_peer", who |-> inner.who,
         arg |-> inner.arg, request |-> NoArg, fallback |-> NoArg,
         tx |-> NoTx, connect |-> NoArg]
    ELSE
        [id |-> inner.id, op |-> "start_request", who |-> inner.who,
         arg |-> inner.arg, request |-> inner.request, fallback |-> "None",
         tx |-> inner.tx, connect |-> inner.connect]

\* variant: a request whose Receiver is already gone is not passed on
dispatch_skip_canceled(inner) ==
    IF inner.kind = "StartRequest" /\ oneshot[inner.tx].rx = "dropped"
    THEN <<>> ELSE <<service_call(inner)>>

\* variant: the ReportPeer arm makes no call
dispatch_skip_report(inner) ==
    IF inner.kind = "ReportPeer" THEN <<>> ELSE <<service_call(inner)>>

\* `match inner`: the calls made for one command
dispatch(inner) == <<service_call(inner)>>

\* variant: the relay answers the request itself before passing the Sender on
pass_tx_reply(os, inner, made) ==
    [i \in DOMAIN os |->
        IF i = inner.tx /\ os[i].tx = "queue"
        THEN [os[i] EXCEPT !.tx = "sent", !.value = "Refused"]
        ELSE os[i]]

\* the reply Sender of the command moves into the call that carries it;
\* a Sender that is carried by no call is dropped with the command
pass_tx(os, inner, made) ==
    [i \in DOMAIN os |->
        IF \E k \in DOMAIN made :
                made[k].op = "start_request" /\ made[k].tx = i
        THEN [os[i] EXCEPT !.tx = "cap"]
        ELSE IF i = inner.tx /\ os[i].tx = "queue"
             THEN drop_tx(os[i])
             ELSE os[i]]

\* the capability is entered with the call of the matching arm
run_match ==
    /\ pc = "match"
    /\ LET made == dispatch(cur) IN
        /\ calls' = calls \o made
        /\ inflight' = inflight \cup {made[k].id : k \in DOMAIN made}
        /\ held' = held \cup
                {[req |-> made[k].id, tx |-> made[k].tx] :
                    k \in {j \in DOMAIN made : made[j].op = "start_request"}}
        /\ oneshot' = pass_tx(oneshot, cur, made)
    /\ pc' = "call"
    /\ UNCHANGED <<handle, created, live, queue, warned, issued, cur, taken,
                   answered, observed, started>>

\* variant: after start_request the loop waits until the reply slot is settled
run_return_await ==
    /\ pc = "call"
    /\ \A c \in held : c.req # cur.id
    /\ inflight' = inflight \ {cur.id}
    /\ cur' = NoCmd
    /\ pc' = "next"
    /\ UNCHANGED <<handle, created, live, queue, warned, issued, oneshot,
                   taken, calls, held, answered, observed, started>>

\* the call returns and the loop goes back to rx.next()
run_return ==
    /\ pc = "call"
    /\ inflight' = inflight \ {cur.id}
    /\ cur' = NoCmd
    /\ pc' = "next"
    /\ UNCHANGED <<handle, created, live, queue, warned, issued, oneshot,
                   taken, calls, held, answered, observed, started>>

\* variant: the loop ends as soon as the queue is found empty
run_exit_on_empty ==
    /\ pc = "next"
    /\ queue = <<>>
    /\ pc' = "done"
    /\ UNCHANGED <<handle, created, live, queue, warned, issued, oneshot,
                   cur, taken, calls, inflight, held, answered, observed,
                   started>>

\* rx.next().await yields None: no sender is left and the queue is empty
run_exit ==
    /\ pc = "next"
    /\ queue = <<>>
    /\ senders = 0
    /\ pc' = "done"
    /\ UNCHANGED <<handle, created, live, queue, warned, issued, oneshot,
                   cur, taken, calls, inflight, held, answered, observed,
                   started>>

\* the run future is dropped at its suspension point: rx goes with it
run_cancel ==
    /\ pc = "next"
    /\ pc' = "cancelled"
    /\ oneshot' = drain(queue, oneshot)
    /\ queue' = <<>>
    /\ UNCHANGED <<handle, created, live, warned, issued, cur, taken, calls,
                   inflight, held, answered, observed, started>>

(* ---------------------------- the capability --------------------------- *)
\* the capability sends a reply on a Sender it was given
cap_fulfil(c, v) ==
    /\ c \in held
    /\ c.tx \in Ids
    /\ held' = held \ {c}
    /\ answered' = [answered EXCEPT ![c.req] = v]
    /\ oneshot' = [oneshot EXCEPT ![c.tx] =
            IF @.rx = "held" THEN [@ EXCEPT !.tx = "sent", !.value = v]
            ELSE [@ EXCEPT !.tx = "sent"]]
    /\ UNCHANGED <<pc, handle, created, live, queue, warned, issued, cur,
                   taken, calls, inflight, observed, started>>

\* the capability drops a Sender it was given without sending
cap_drop(c) ==
    /\ c \in held
    /\ c.tx \in Ids
    /\ held' = held \ {c}
    /\ oneshot' = [oneshot EXCEPT ![c.tx] = drop_tx(@)]
    /\ UNCHANGED <<pc, handle, created, live, queue, warned, issued, cur,
                   taken, calls, inflight, answered, observed, started>>

(* ---------------------------- the callers ------------------------------ *)
\* the caller of request s awaits its Receiver and gets an outcome
caller_recv(s) ==
    /\ oneshot[s].rx = "held"
    /\ oneshot[s].value # NoArg \/ oneshot[s].tx = "dropped"
    /\ observed' = [observed EXCEPT ![s] = Append(@,
            [by |-> issued[s].by,
             outcome |-> IF oneshot[s].value # NoArg THEN oneshot[s].value
                         ELSE Canceled])]
    /\ oneshot' = [oneshot EXCEPT ![s].rx = "done"]
    /\ UNCHANGED <<pc, handle, created, live, queue, warned, issued, cur,
                   taken, calls, inflight, held, answered, started>>

\* the caller of request s drops its Receiver
caller_abandon(s) ==
    /\ oneshot[s].rx = "held"
    /\ oneshot' = [oneshot EXCEPT ![s].rx = "dropped"]
    /\ UNCHANGED <<pc, handle, created, live, queue, warned, issued, cur,
                   taken, calls, inflight, held, answered, observed, started>>

(* ---------------------------- specification ---------------------------- *)
\* every step but the cancellation of the run task
NextDriven ==
    \/ \E h \in 1..MaxHandles, who \in Peers, c \in Changes :
            report_peer(h, who, c)
    \/ \E h \in 1..MaxHandles, who \in Peers, p \in Protocols :
            disconnect_peer(h, who, p)
    \/ \E h \in 1..MaxHandles, who \in Peers, p \in Protocols,
          r \in Payloads, c \in Policies :
            start_request(h, who, p, r, c)
    \/ \E h \in 1..MaxHandles : clone(h)
    \/ \E h \in 1..MaxHandles : drop_handle(h)
    \/ provider_handle
    \/ provider_drop
    \/ run_start
    \/ run_next
    \/ run_match
    \/ run_return
    \/ run_exit
    \/ \E c \in held, v \in Replies : cap_fulfil(c, v)
    \/ \E c \in held : cap_drop(c)
    \/ \E s \in Ids : caller_recv(s)
    \/ \E s \in Ids : caller_abandon(s)

Next ==
    \/ NextDriven
    \/ run_cancel

Spec == Init /\ [][Next]_vars

\* the run task is polled until it returns, and capability calls return
RunFairness ==
    /\ WF_vars(run_next)
    /\ WF_vars(run_match)
    /\ WF_vars(run_return)
    /\ WF_vars(run_exit)

LiveSpec == Init /\ [][NextDriven]_vars /\ RunFairness

\* the provider is eventually run or dropped, the run task is polled until
\* it returns or is cancelled, the capability settles every reply Sender it
\* holds, and a caller whose Receiver is ready takes the outcome
ReplyFairness ==
    /\ RunFairness
    /\ WF_vars(run_start \/ provider_drop)
    /\ WF_vars(\E c \in held :
                cap_drop(c) \/ \E v \in Replies : cap_fulfil(c, v))
    /\ \A s \in Ids : WF_vars(caller_recv(s))

ReplySpec == Init /\ [][Next]_vars /\ ReplyFairness

(* ---------------------------- properties ------------------------------ *)
\* the indices of the capability calls made for command i
CallsFor(i) == {k \in 1..Len(calls) : calls[k].id = i}

\* the ids of the commands the channel accepted, in enqueue order
Enqueued == SelectSeq([i \in 1..Len(issued) |-> i], LAMBDA i : issued[i].open)

IsFireAndForget(i) == issued[i].cmd.kind \in {"DisconnectPeer", "ReportPeer"}
IsRequest(i) == issued[i].cmd.kind = "StartRequest"

\* command i was dequeued and its match arm has been entered
Dispatched(i) == i \in taken /\ ~(pc = "match" /\ cur.id = i)

\* C1: the capability calls are made in enqueue order, whichever handle
\* enqueued each command: the k-th call is the call for the k-th enqueued
\* command, so a report_peer enqueued after a disconnect_peer is applied
\* after that disconnect.
C1_EnqueueOrder ==
    /\ Len(calls) <= Len(Enqueued)
    /\ \A k \in 1..Len(calls) : calls[k].id = Enqueued[k]

\* a disconnect and a later report for the same peer, enqueued through two
\* different handles, have both been applied
C1_Witness ==
    /\ Len(issued) = 2 /\ Len(calls) = 2
    /\ issued[1].by # issued[2].by
    /\ issued[1].cmd.kind = "DisconnectPeer"
    /\ issued[2].cmd.kind = "ReportPeer"
    /\ issued[1].cmd.who = issued[2].cmd.who
    /\ calls[1].op = "disconnect_peer" /\ calls[2].op = "report_peer"

\* C2 (amended): a disconnect_peer / report_peer command gets at most one
\* capability call, exactly one once run has dequeued and dispatched it (and
\* once run has returned, if it was enqueued), that call is the matching
\* operation with the arguments supplied, and the caller gets no result.
C2_FireAndForgetOnce ==
    \A i \in 1..Len(issued) : IsFireAndForget(i) =>
        /\ Cardinality(CallsFor(i)) <= 1
        /\ Dispatched(i) => Cardinality(CallsFor(i)) = 1
        /\ (pc = "done" /\ issued[i].open) => Cardinality(CallsFor(i)) = 1
        /\ \A k \in CallsFor(i) :
              /\ calls[k].op = (IF issued[i].cmd.kind = "DisconnectPeer"
                                THEN "disconnect_peer" ELSE "report_peer")
              /\ calls[k].who = issued[i].cmd.who
              /\ calls[k].arg = issued[i].cmd.arg
              /\ calls[k].tx = NoTx
        /\ issued[i].result = "returned"
        /\ observed[i] = <<>>
        /\ oneshot[i] = NoSlot

\* C2 as stated: every disconnect_peer / report_peer called on a handle has
\* got exactly one capability call once the provider has come to rest.
C2_EveryCommandCalled ==
    pc \in {"done", "dropped", "cancelled"} =>
        \A i \in 1..Len(issued) : IsFireAndForget(i) =>
            Cardinality(CallsFor(i)) = 1

\* run has returned after a disconnect of one peer and a report of the other
C2_Witness ==
    /\ pc = "done"
    /\ Len(calls) = 2
    /\ calls[1].op = "disconnect_peer" /\ calls[1].who = "P"
    /\ calls[2].op = "report_peer" /\ calls[2].who = "Q"

\* C3: a dequeued StartRequest gets exactly one start_request call, with the
\* same peer, protocol, payload and connect policy, with its own reply Sender,
\* and with no fallback.
C3_StartRequestOnce ==
    \A i \in 1..Len(issued) : IsRequest(i) =>
        /\ Cardinality(CallsFor(i)) <= 1
        /\ Dispatched(i) => Cardinality(CallsFor(i)) = 1
        /\ \A k \in CallsFor(i) :
              /\ calls[k].op = "start_request"
              /\ calls[k].who = issued[i].cmd.who
              /\ calls[k].arg = issued[i].cmd.arg
              /\ calls[k].request = issued[i].cmd.request
              /\ calls[k].connect = issued[i].cmd.connect
              /\ calls[k].tx = issued[i].cmd.tx
              /\ calls[k].tx = i
              /\ calls[k].fallback = "None"

\* two requests to different peers have both been passed to the capability
C3_Witness ==
    /\ Len(calls) = 2
    /\ calls[1].op = "start_request" /\ calls[2].op = "start_request"
    /\ calls[1].who # calls[2].who
    /\ {c.tx : c \in held} = {1, 2}

\* C4: what a caller sees on its Receiver, if not the closed outcome, is the
\* value the capability wrote for that very request; it is seen at most once
\* and only by the caller that issued the request; a reply slot holds no
\* value but the one the capability wrote for its request.
C4_ReplyToCaller ==
    \A s \in Ids :
        /\ Len(observed[s]) <= 1
        /\ \A k \in 1..Len(observed[s]) :
              /\ observed[s][k].by = issued[s].by
              /\ observed[s][k].outcome # Canceled =>
                    observed[s][k].outcome = answered[s]
        /\ oneshot[s].value # NoArg => oneshot[s].value = answered[s]

\* two requests of different handles are in flight; the second is answered
\* first with a failure, the first then with a success, and both callers
\* have seen their own reply
C4_Witness ==
    /\ Len(issued) = 2
    /\ issued[1].by # issued[2].by
    /\ observed[1] = <<[by |-> issued[1].by, outcome |-> "Ok99"]>>
    /\ observed[2] = <<[by |-> issued[2].by, outcome |-> "Refused"]>>

\* run is inside its loop
Running == pc \in {"next", "match", "call"}

\* every command the channel accepted has been passed to the capability
Drained == \A i \in 1..Len(issued) : issued[i].open => CallsFor(i) # {}

\* C5: once run has started and every handle is dropped, run drains the
\* commands left in the queue and returns, and no capability call is made
\* after it has returned.
C5_RunReturns ==
    /\ (Running /\ live = {}) ~> (pc = "done" /\ queue = <<>> /\ Drained)
    /\ [][pc = "done" => (pc' = "done" /\ calls' = calls)]_vars

\* run has returned after two handles enqueued two commands and were dropped
C5_Witness ==
    /\ pc = "done"
    /\ created = 2 /\ live = {}
    /\ Len(calls) = 2

\* the step calls a handle operation of one of the given kinds while the
\* receiving end of the channel is gone
EnqueueOnClosed(kinds) ==
    /\ Len(issued') = Len(issued) + 1
    /\ ~rx_open
    /\ issued'[Len(issued')].cmd.kind \in kinds

\* C6: disconnect_peer / report_peer called when the receiving end is gone
\* returns normally and changes nothing: the command is in no queue and no
\* capability call is ever made for it.
C6_DiscardOnClosed ==
    /\ [][EnqueueOnClosed({"DisconnectPeer", "ReportPeer"}) =>
            /\ issued'[Len(issued')].result = "returned"
            /\ UNCHANGED <<pc, handle, created, live, queue, warned, oneshot,
                           cur, taken, calls, inflight, held, answered,
                           observed, started>>]_vars
    /\ [](\A i \in 1..Len(issued) : (IsFireAndForget(i) /\ ~issued[i].open) =>
            /\ issued[i].result = "returned"
            /\ i \notin taken
            /\ CallsFor(i) = {}
            /\ \A k \in 1..Len(queue) : queue[k].id # i)

\* a report was discarded after the run task had made a call and was cancelled
C6_Witness ==
    /\ pc = "cancelled"
    /\ Len(issued) = 2 /\ Len(calls) = 1
    /\ issued[2].cmd.kind = "ReportPeer" /\ ~issued[2].open
    /\ issued[2].result = "returned"

\* C7: start_request called when the receiving end is gone returns normally,
\* makes no capability call, and leaves the reply slot closed and empty, so
\* its caller sees only the closed outcome; a caller sees a network failure
\* only if the capability was called for that request and wrote that failure.
C7_ClosedIsLocal ==
    \A s \in 1..Len(issued) : IsRequest(s) =>
        /\ ~issued[s].open =>
              /\ issued[s].result = "returned"
              /\ CallsFor(s) = {}
              /\ oneshot[s].tx = "dropped"
              /\ oneshot[s].value = NoArg
              /\ \A k \in 1..Len(observed[s]) :
                    observed[s][k].outcome = Canceled
        /\ \A k \in 1..Len(observed[s]) :
              observed[s][k].outcome \in Failures =>
                /\ CallsFor(s) # {}
                /\ answered[s] = observed[s][k].outcome

\* a request issued after the run task was cancelled was seen as closed,
\* while an earlier one was seen to fail in the network
C7_Witness ==
    /\ pc = "cancelled"
    /\ Len(issued) = 2
    /\ IsRequest(1) /\ IsRequest(2)
    /\ ~issued[2].open
    /\ Len(observed[1]) = 1 /\ observed[1][1].outcome = "Refused"
    /\ Len(observed[2]) = 1 /\ observed[2][1].outcome = Canceled

\* the capability was given the Sender of request s and dropped it unused
CapDropped(s) ==
    /\ \E k \in CallsFor(s) : calls[k].tx = s
    /\ \A c \in held : c.tx # s
    /\ answered[s] = NoArg

\* C8: when the capability has dropped the reply Sender of a request unused,
\* the caller's await is ready and yields the closed outcome; the drop leaves
\* the run loop where it was, and a queued command can still be taken.
C8_DroppedSlotCloses ==
    /\ \A s \in 1..Len(issued) : CapDropped(s) =>
          /\ oneshot[s].rx = "held" => ENABLED caller_recv(s)
          /\ \A k \in 1..Len(observed[s]) :
                observed[s][k].outcome = Canceled
    /\ (\E s \in 1..Len(issued) : CapDropped(s)) =>
          /\ (pc = "next" /\ queue # <<>>) => ENABLED run_next
          /\ pc = "match" => ENABLED run_match
          /\ pc = "call" => ENABLED run_return

\* the capability dropped the Sender of the first request, its caller saw
\* the closed outcome, and the command enqueued next was executed
C8_Witness ==
    /\ Len(issued) = 2
    /\ CapDropped(1)
    /\ observed[1] = <<[by |-> issued[1].by, outcome |-> Canceled]>>
    /\ Len(calls) = 2

\* C9: a handle operation on an open channel is never refused or held up by
\* the depth of the queue: it is enabled for every live handle, and it
\* appends its command and returns, also at and above the warning threshold.
C9_NoBackpressure ==
    /\ [][(Len(issued') = Len(issued) + 1 /\ rx_open) =>
            /\ queue' = Append(queue, issued'[Len(issued')].cmd)
            /\ issued'[Len(issued')].result = "returned"
            /\ issued'[Len(issued')].open]_vars
    /\ [](\A h \in live : (rx_open /\ Len(issued) < MaxCmds) =>
            /\ \A who \in Peers, c \in Changes : ENABLED report_peer(h, who, c)
            /\ \A who \in Peers, p \in Protocols :
                    ENABLED disconnect_peer(h, who, p)
            /\ \A who \in Peers, p \in Protocols, r \in Payloads,
                  c \in Policies : ENABLED start_request(h, who, p, r, c))

\* the queue is deeper than the warning threshold and the warning has fired
C9_Witness ==
    /\ rx_open
    /\ warned
    /\ Len(queue) > QueueSizeWarning

\* C10: at most one capability call made by run is in progress, it is the
\* call for the command run holds, and a command is dequeued only while no
\* call is in progress.
C10_OneCallAtATime ==
    /\ [](/\ Cardinality(inflight) <= 1
          /\ inflight # {} => (pc = "call" /\ inflight = {cur.id})
          /\ pc = "call" => inflight = {cur.id})
    /\ [][taken' # taken => (inflight = {} /\ inflight' = {})]_vars

\* a call is in progress while two live handles have filled the queue behind it
C10_Witness ==
    /\ pc = "call"
    /\ inflight = {1}
    /\ Len(queue) = 1
    /\ Cardinality(live) = 2

\* C11: run returns only on exhaustion: whenever it has returned, no handle
\* is left (the provider's own included), the queue is empty and every
\* enqueued command has been executed; it returns from nowhere but its wait
\* for the next command, and never in a step of the capability or a caller.
C11_ReturnsOnlyOnExhaustion ==
    /\ [](pc = "done" =>
            /\ live = {} /\ ~handle
            /\ queue = <<>>
            /\ Drained
            /\ taken = {i \in 1..Len(issued) : issued[i].open})
    /\ [][(pc # "done" /\ pc' = "done") =>
            /\ pc = "next"
            /\ live = {} /\ queue = <<>>
            /\ held' = held /\ oneshot' = oneshot]_vars
    /\ [][(Running /\ pc' \notin {"next", "match", "call"}) =>
            (pc = "next" /\ pc' \in {"done", "cancelled"})]_vars

\* run has returned after one handle was dropped early, the other enqueued
\* two requests, one of which failed and one of which lost its slot
C11_Witness ==
    /\ pc = "done"
    /\ created = 2
    /\ Len(issued) = 2
    /\ issued[1].by = issued[2].by
    /\ answered[1] = "Refused"
    /\ CapDropped(2)

\* C12: a command enqueued behind a StartRequest is executed whether or not
\* the reply to that request ever comes: while run is driven, every command
\* in the queue is eventually passed to the capability, with no assumption
\* on the capability settling any reply slot.
C12_NoWaitForReply ==
    \A i \in Ids :
        (Running /\ i <= Len(issued) /\ issued[i].open)
            ~> (i <= Len(issued) /\ CallsFor(i) # {})

\* the command behind a request has been executed while the reply slot of
\* that request is still held, unanswered, by the capability
C12_Witness ==
    /\ Len(calls) = 2
    /\ calls[1].op = "start_request"
    /\ calls[2].op = "report_peer"
    /\ [req |-> 1, tx |-> 1] \in held
    /\ answered[1] = NoArg
    /\ pc = "next"

\* C13: a request whose caller has dropped the Receiver is treated like any
\* other: once dispatched it has exactly one start_request call with its own
\* arguments and Sender, the commands behind it are executed only after it,
\* and the step in which the Receiver is dropped changes nothing of run, of
\* the queue or of the calls.
C13_AbandonedSlotIgnored ==
    /\ [](\A s \in 1..Len(issued) :
            (IsRequest(s) /\ issued[s].open /\ oneshot[s].rx = "dropped") =>
              /\ Cardinality(CallsFor(s)) <= 1
              /\ Dispatched(s) => Cardinality(CallsFor(s)) = 1
              /\ \A k \in CallsFor(s) :
                    calls[k] = [id |-> s, op |-> "start_request",
                                who |-> issued[s].cmd.who,
                                arg |-> issued[s].cmd.arg,
                                request |-> issued[s].cmd.request,
                                fallback |-> "None", tx |-> s,
                                connect |-> issued[s].cmd.connect]
              /\ \A j \in 1..Len(issued) :
                    (j > s /\ CallsFor(j) # {}) => CallsFor(s) # {})
    /\ [][(\E s \in Ids : oneshot[s].rx = "held"
                           /\ oneshot'[s].rx = "dropped") =>
            UNCHANGED <<pc, cur, queue, taken, calls, inflight, held>>]_vars

\* the Receiver of the first request is dropped, the capability was called
\* with that request and answered it, and the next command was executed
C13_Witness ==
    /\ Len(issued) = 2 /\ IsRequest(1)
    /\ oneshot[1].rx = "dropped"
    /\ observed[1] = <<>>
    /\ Len(calls) = 2
    /\ calls[1].tx = 1
    /\ answered[1] = "Ok99"

\* C14: while run is in its loop the provider holds no handle, so the
\* senders of the channel are exactly the live handles; run started with no
\* handle and nothing enqueued makes no call and, if still waiting, can
\* return at once.
C14_OwnHandleDropped ==
    /\ Running => (~handle /\ senders = Cardinality(live))
    /\ (started = "alone" /\ issued = <<>>) =>
          /\ calls = <<>> /\ taken = {}
          /\ pc \in {"next", "done", "cancelled"}
          /\ pc = "next" => ENABLED run_exit

\* run was started on a provider that never gave out a handle and returned
C14_Witness ==
    /\ pc = "done"
    /\ started = "alone"
    /\ created = 0
    /\ issued = <<>> /\ calls = <<>>

\* the ids of the queued commands, oldest first
QueuedIds == [k \in 1..Len(queue) |-> queue[k].id]

\* C15: before run starts the provider's handle keeps the channel open and
\* every command called on a handle is buffered in call order; when run is
\* started after the last handle was dropped, it executes exactly these
\* commands, each once and in that order, and then returns.
C15_BufferedBeforeRun ==
    /\ [](pc = "new" =>
            /\ handle /\ rx_open
            /\ \A i \in 1..Len(issued) : issued[i].open
            /\ QueuedIds = [i \in 1..Len(issued) |-> i])
    /\ [](started = "alone" =>
            /\ \A i \in 1..Len(issued) : issued[i].open
            /\ Len(calls) <= Len(issued)
            /\ \A k \in 1..Len(calls) : calls[k].id = k
            /\ pc = "done" => Len(calls) = Len(issued))
    /\ (started = "alone" /\ Running)
            ~> (pc = "done" /\ Len(calls) = Len(issued))

\* run was started after both handles had enqueued a command and had been
\* dropped, and has returned after executing both commands
C15_Witness ==
    /\ started = "alone"
    /\ pc = "done"
    /\ created = 2
    /\ Len(issued) = 2 /\ issued[1].by # issued[2].by
    /\ Len(calls) = 2 /\ calls[1].id = 1 /\ calls[2].id = 2

\* C16: every request whose caller keeps its Receiver is eventually seen to
\* have an outcome by that caller, given that the provider is run or dropped
\* and the capability settles the Senders it is given; when the provider or
\* its run task is gone, no reply Sender is left in the queue.
C16_CallerGetsOutcome ==
    /\ \A s \in Ids :
          (s <= Len(issued) /\ IsRequest(s) /\ oneshot[s].rx = "held")
            ~> (oneshot[s].rx = "dropped" \/ Len(observed[s]) = 1)
    /\ [](pc \in {"dropped", "cancelled"} =>
            /\ queue = <<>>
            /\ \A s \in Ids : oneshot[s].tx # "queue")

\* a request was still queued when the run task was cancelled, and its
\* caller has seen the closed outcome
C16_Witness ==
    /\ pc = "cancelled"
    /\ Len(issued) >= 1 /\ IsRequest(1) /\ issued[1].open
    /\ CallsFor(1) = {}
    /\ observed[1] = <<[by |-> issued[1].by, outcome |-> Canceled]>>

\* some handle operation can be called
CanEnqueue ==
    \E h \in 1..MaxHandles, who \in Peers :
        \/ \E c \in Changes : ENABLED report_peer(h, who, c)
        \/ \E p \in Protocols : ENABLED disconnect_peer(h, who, p)
        \/ \E p \in Protocols, r \in Payloads, c \in Policies :
                ENABLED start_request(h, who, p, r, c)

\* C17: once run has returned there is no live handle, no handle operation
\* can be called and none is called; an operation that found the channel
\* closed was called after the provider was dropped or its run task cancelled.
C17_NoEnqueueAfterReturn ==
    /\ [](pc = "done" => (live = {} /\ ~CanEnqueue))
    /\ [](\A i \in 1..Len(issued) :
            ~issued[i].open => pc \in {"dropped", "cancelled"})
    /\ [][pc = "done" => (issued' = issued /\ live' = {})]_vars

\* run has returned after handles that outlived its start enqueued two
\* commands, none of which found the channel closed
C17_Witness ==
    /\ pc = "done"
    /\ started = "shared"
    /\ Len(issued) = 2
    /\ issued[1].open /\ issued[2].open
    /\ live = {}

====
